---- MODULE Spec2Model ----
(***************************************************************************)
(* Model of the IAM policy chatbot's core routines:                        *)
(*   - PolicyValidator.validate_policy   (src/policy_validator.py), as a   *)
(*     single call (Spec) and as calls sharing one instance (ConcSpec)     *)
(*   - extract_policy_json               (src/app.py) and its twin         *)
(*     PolicyValidator.extract_policy_from_text                            *)
(*   - validate_policy_from_text, bot_response and save_current_policy     *)
(*     (src/app.py) with PolicyUtils.extract_and_save_policy               *)
(*     (src/policy_utils.py): extract, validate, render, save (AppSpec)    *)
(*   - main                              (src/generate_policy_cli.py):     *)
(*     the command-line run up to its extraction step (CliSpec)            *)
(*                                                                         *)
(* Python strings are sequences of one-character strings, so that          *)
(* substring tests, regular-expression searches and JSON decoding are      *)
(* computed and not assumed.  Python values are tagged records:            *)
(*   [t |-> "str", s |-> chars]   [t |-> "num", n |-> Int]                  *)
(*   [t |-> "null"]               [t |-> "list", l |-> sequence of values]  *)
(*   [t |-> "dict", d |-> function from keys (chars) to values]             *)
(***************************************************************************)
EXTENDS Integers, Sequences, FiniteSets, TLC

VARIABLES
    policy_json,   \* validate_policy: the argument
    policy,        \* validate_policy: the decoded policy
    results,       \* validate_policy: the report under construction
    statements,    \* validate_policy: the normalised statement list
    i,             \* validate_policy: enumerate() index of the loop (0-based)
    pc,            \* validate_policy: position in the function
    exc,           \* the exception raised inside the running try block ("" if none)
    ret,           \* validate_policy: the returned report (meaningful at pc = "done")
    text,          \* extract_policy_json: the argument (the model's response)
    json_str,      \* extract_policy_json: first member of the returned pair
    extracted,     \* extract_policy_json: second member of the returned pair
    validator,     \* the PolicyValidator instance (self): its two rule lists
    heap,          \* shared use: the policy objects the callers pass in
    calls,         \* shared use: the locals of each caller's validate_policy call
    reports,       \* shared use: the report dict each call allocated
    result,        \* validate_policy_from_text: the returned text, as its lines
    save_out,      \* save_current_policy: what the save reported
    files,         \* the policies directory: file path -> the data written
    args,          \* generate_policy_cli.main: the parsed command line
    prompt,        \* generate_policy_cli.main: the use case description
    stdout,        \* generate_policy_cli.main: what was printed
    status         \* generate_policy_cli.main: the exit status (-1 while running)

\* the variables of validate_policy calls running side by side on one instance
conc == <<validator, heap, calls, reports>>

\* what the interface functions of src/app.py produce
ui == <<result, save_out, files>>

\* the variables of the command-line flow
cli == <<args, prompt, stdout, status>>

vars == <<policy_json, policy, results, statements, i, pc, exc, ret, text, json_str, extracted,
          conc, ui, cli>>

\* the variables a single validate_policy call has no access to
ext == <<text, json_str, extracted, conc, ui, cli>>

(***************************************************************************)
(* Bounds of the explored inputs.                                          *)
(***************************************************************************)
MaxStmts == 2       \* statements in a 'Statement' list
MaxActions == 2     \* entries in an 'Action' list
MaxResources == 2   \* entries in a 'Resource' list
MaxWs == 1          \* whitespace characters on either side of a fenced document

(***************************************************************************)
(* Python values.                                                          *)
(***************************************************************************)
Str(s) == [t |-> "str", s |-> s]
Num(n) == [t |-> "num", n |-> n]
Null == [t |-> "null"]
List(l) == [t |-> "list", l |-> l]
Dict(d) == [t |-> "dict", d |-> d]
EmptyDict == [k \in {} |-> Null]

K_Version == <<"V","e","r","s","i","o","n">>
K_Statement == <<"S","t","a","t","e","m","e","n","t">>
K_Action == <<"A","c","t","i","o","n">>
K_Resource == <<"R","e","s","o","u","r","c","e">>
K_Condition == <<"C","o","n","d","i","t","i","o","n">>
Wildcard == <<"*">>

\* self.overly_permissive_actions
overly_permissive_actions ==
    << <<"*">>,
       <<"s","3",":","*">>,
       <<"e","c","2",":","*">>,
       <<"i","a","m",":","*">>,
       <<"d","y","n","a","m","o","d","b",":","*">>,
       <<"l","a","m","b","d","a",":","*">>,
       <<"c","l","o","u","d","f","o","r","m","a","t","i","o","n",":","*">> >>

\* self.sensitive_actions
sensitive_actions ==
    << <<"i","a","m",":","C","r","e","a","t","e","U","s","e","r">>,
       <<"i","a","m",":","C","r","e","a","t","e","R","o","l","e">>,
       <<"i","a","m",":","P","u","t","R","o","l","e","P","o","l","i","c","y">>,
       <<"i","a","m",":","A","t","t","a","c","h","R","o","l","e","P","o","l","i","c","y">>,
       <<"i","a","m",":","A","t","t","a","c","h","U","s","e","r","P","o","l","i","c","y">>,
       <<"s","3",":","P","u","t","B","u","c","k","e","t","P","o","l","i","c","y">>,
       <<"e","c","2",":","R","u","n","I","n","s","t","a","n","c","e","s">>,
       <<"l","a","m","b","d","a",":","C","r","e","a","t","e","F","u","n","c","t","i","o","n">>,
       <<"k","m","s",":","D","e","c","r","y","p","t">>,
       <<"s","e","c","r","e","t","s","m","a","n","a","g","e","r",":","G","e","t","S","e","c","r","e","t","V","a","l","u","e">> >>

(***************************************************************************)
(* Python operators used by validate_policy.                               *)
(***************************************************************************)
\* needle occurs in hay as a contiguous run: `needle in hay` on two str
IsSubstring(needle, hay) ==
    \E k \in 0..(Len(hay) - Len(needle)) :
        \A j \in 1..Len(needle) : hay[k + j] = needle[j]

\* `key in v` raises TypeError unless v is a container or a str
InRaises(v) == v.t \notin {"dict", "list", "str"}

\* `key in v` for a str key
PyIn(key, v) ==
    CASE v.t = "dict" -> key \in DOMAIN v.d
      [] v.t = "list" -> \E k \in DOMAIN v.l : v.l[k] = Str(key)
      [] v.t = "str" -> IsSubstring(key, v.s)
      [] OTHER -> FALSE

\* v[key] for a str key raises TypeError on a str or a list (the callers have
\* established `key in v`, so a dict has the key)
GetItemRaises(v) == v.t /= "dict"

GetItem(v, key) == v.d[key]

\* variant: an entry ending in "*" matches every string it is a prefix of
InStrList_Prefix(x, L) ==
    /\ x.t = "str"
    /\ \E k \in DOMAIN L :
          \/ L[k] = x.s
          \/ /\ L[k][Len(L[k])] = "*"
             /\ Len(x.s) >= Len(L[k]) - 1
             /\ SubSeq(x.s, 1, Len(L[k]) - 1) = SubSeq(L[k], 1, Len(L[k]) - 1)

\* `x in L` for a list L of str: == on every entry
InStrList(x, L) == x.t = "str" /\ \E k \in DOMAIN L : L[k] = x.s

\* x if isinstance(x, list) else [x]
AsList(x) == IF x.t = "list" THEN x.l ELSE <<x>>

(***************************************************************************)
(* The report and the messages.  An f-string is kept as its template and   *)
(* the values substituted into it.                                         *)
(***************************************************************************)
Msg(fmt, n, a) == [fmt |-> fmt, n |-> n, a |-> a]

MissingVersionIssue == Msg("Missing 'Version' field in policy", 0, <<>>)
MissingVersionRec == Msg("Add 'Version': '2012-10-17' to the policy", 0, <<>>)
MissingStatementIssue == Msg("Missing 'Statement' field in policy", 0, <<>>)
PermissiveIssue(n, a) == Msg("Statement {i+1} contains overly permissive action: {action}", n, a)
PermissiveRec(a) == Msg("Replace '{action}' with specific actions needed for the use case", 0, a)
SensitiveIssue(n, a) == Msg("Statement {i+1} contains sensitive action: {action}", n, a)
SensitiveRec(a) == Msg("Review if '{action}' is absolutely necessary and consider adding conditions", 0, a)
WildcardIssue(n) == Msg("Statement {i+1} applies to all resources ('*')", n, <<>>)
WildcardRec == Msg("Specify exact resource ARNs instead of using '*'", 0, <<>>)
MissingResourceIssue(n) == Msg("Statement {i+1} is missing 'Resource' field", n, <<>>)
MissingResourceRec == Msg("Add specific resource ARNs to the statement", 0, <<>>)
ConditionRec(n) == Msg("Consider adding conditions to Statement {i+1} for additional security", n, <<>>)

NewResults == [valid |-> TRUE, issues |-> <<>>, recommendations |-> <<>>]

DecodeErrorReport ==
    [valid |-> FALSE,
     issues |-> << Msg("Invalid JSON format", 0, <<>>) >>,
     recommendations |-> << Msg("Check the policy syntax for errors", 0, <<>>) >>]

ErrorReport ==
    [valid |-> FALSE,
     issues |-> << Msg("Validation error: {str(e)}", 0, <<>>) >>,
     recommendations |-> << Msg("Review the policy structure", 0, <<>>) >>]

AddIssue(r, issue) == [r EXCEPT !.issues = Append(@, issue)]
AddRec(r, rec) == [r EXCEPT !.recommendations = Append(@, rec)]
SetInvalid(r) == [r EXCEPT !.valid = FALSE]

(***************************************************************************)
(* json.loads on the JSON subset the modelled texts use: objects, arrays,  *)
(* strings without escape sequences, integers, true, false and null.       *)
(* A parse result is [ok, v, pos]: pos is the index after the value.       *)
(***************************************************************************)
JsonWs == {" ", "\t", "\n", "\r"}
Digits == {"0", "1", "2", "3", "4", "5", "6", "7", "8", "9"}
Bool(b) == [t |-> "bool", b |-> b]

Fail == [ok |-> FALSE, v |-> Null, pos |-> 0]
Ok(v, pos) == [ok |-> TRUE, v |-> v, pos |-> pos]

\* the character at index p, "" past either end
At(s, p) == IF p >= 1 /\ p <= Len(s) THEN s[p] ELSE ""

\* the end of WHITESPACE.match(s, p): the first index >= p not holding whitespace
SkipWs(s, p) ==
    CHOOSE q \in p..(Len(s) + 1) :
        /\ \A j \in p..(q - 1) : s[j] \in JsonWs
        /\ At(s, q) \notin JsonWs

MinOf(S) == CHOOSE x \in S : \A y \in S : x <= y

\* s[p..] starts with the characters of word
StartsWith(s, p, word) ==
    /\ p >= 1
    /\ p + Len(word) - 1 <= Len(s)
    /\ \A j \in 1..Len(word) : s[p + j - 1] = word[j]

\* scanstring: s[p] is the opening quote; the string ends at the next quote;
\* a control character inside it is an error (strict mode)
ParseString(s, p) ==
    LET ends == {q \in (p + 1)..Len(s) : s[q] = "\""}
    IN  IF ends = {} THEN Fail
        ELSE LET q == MinOf(ends)
             IN  IF \E j \in (p + 1)..(q - 1) : s[j] \in {"\n", "\t", "\r", "\\"}
                 THEN Fail
                 ELSE Ok(Str(SubSeq(s, p + 1, q - 1)), q + 1)

DigitVal(c) ==
    CASE c = "0" -> 0 [] c = "1" -> 1 [] c = "2" -> 2 [] c = "3" -> 3 [] c = "4" -> 4
      [] c = "5" -> 5 [] c = "6" -> 6 [] c = "7" -> 7 [] c = "8" -> 8 [] c = "9" -> 9

RECURSIVE DecimalVal(_, _, _)
DecimalVal(s, p, q) ==
    IF q < p THEN 0 ELSE 10 * DecimalVal(s, p, q - 1) + DigitVal(s[q])

\* NUMBER_RE = (-?(?:0|[1-9]\d*)) at index p
ParseNumber(s, p) ==
    LET neg == At(s, p) = "-"
        d == IF neg THEN p + 1 ELSE p
        e == CHOOSE q \in d..(Len(s) + 1) :
                /\ \A j \in d..(q - 1) : s[j] \in Digits
                /\ At(s, q) \notin Digits
    IN  IF At(s, d) \notin Digits THEN Fail
        ELSE IF At(s, d) = "0" THEN Ok(Num(0), d + 1)
        ELSE Ok(Num(IF neg THEN 0 - DecimalVal(s, d, e - 1) ELSE DecimalVal(s, d, e - 1)), e)

W_null == <<"n","u","l","l">>
W_true == <<"t","r","u","e">>
W_false == <<"f","a","l","s","e">>

RECURSIVE ParseValue(_, _)
RECURSIVE ParseMembers(_, _, _)
RECURSIVE ParseElements(_, _, _)

\* JSONObject after a key's opening quote was expected at index p
ParseMembers(s, p, acc) ==
    IF At(s, p) /= "\"" THEN Fail
    ELSE LET key == ParseString(s, p)
         IN  IF ~key.ok THEN Fail
             ELSE LET c == SkipWs(s, key.pos)
                  IN  IF At(s, c) /= ":" THEN Fail
                      ELSE LET val == ParseValue(s, SkipWs(s, c + 1))
                           IN  IF ~val.ok THEN Fail
                               ELSE LET e == SkipWs(s, val.pos)
                                        acc2 == [k \in (DOMAIN acc) \cup {key.v.s} |->
                                                    IF k = key.v.s THEN val.v ELSE acc[k]]
                                    IN  IF At(s, e) = "}" THEN Ok(Dict(acc2), e + 1)
                                        ELSE IF At(s, e) = ","
                                        THEN ParseMembers(s, SkipWs(s, e + 1), acc2)
                                        ELSE Fail

\* JSONArray with the next element expected at index p
ParseElements(s, p, acc) ==
    LET val == ParseValue(s, p)
    IN  IF ~val.ok THEN Fail
        ELSE LET e == SkipWs(s, val.pos)
                 acc2 == Append(acc, val.v)
             IN  IF At(s, e) = "]" THEN Ok(List(acc2), e + 1)
                 ELSE IF At(s, e) = ","
                 THEN ParseElements(s, SkipWs(s, e + 1), acc2)
                 ELSE Fail

\* scan_once at index p
ParseValue(s, p) ==
    LET c == At(s, p)
    IN  CASE c = "\"" -> ParseString(s, p)
          [] c = "{" -> LET q == SkipWs(s, p + 1)
                        IN  IF At(s, q) = "}" THEN Ok(Dict(EmptyDict), q + 1)
                            ELSE ParseMembers(s, q, EmptyDict)
          [] c = "[" -> LET q == SkipWs(s, p + 1)
                        IN  IF At(s, q) = "]" THEN Ok(List(<<>>), q + 1)
                            ELSE ParseElements(s, q, <<>>)
          [] c = "n" -> IF StartsWith(s, p, W_null) THEN Ok(Null, p + 4) ELSE Fail
          [] c = "t" -> IF StartsWith(s, p, W_true) THEN Ok(Bool(TRUE), p + 4) ELSE Fail
          [] c = "f" -> IF StartsWith(s, p, W_false) THEN Ok(Bool(FALSE), p + 5) ELSE Fail
          [] c = "-" \/ c \in Digits -> ParseNumber(s, p)
          [] OTHER -> Fail

\* json.loads(s): leading whitespace, one value, trailing whitespace, end
json_loads(s) ==
    LET r == ParseValue(s, SkipWs(s, 1))
    IN  IF ~r.ok THEN Fail
        ELSE IF SkipWs(s, r.pos) = Len(s) + 1 THEN r
        ELSE Fail

(***************************************************************************)
(* validate_policy, block by block.  Each block maps the report before it  *)
(* to the report after it; the ...Raises predicates say when the block     *)
(* raises, which the function's `except Exception` turns into ErrorReport. *)
(***************************************************************************)
\* lines 61-64
VersionRaises(p) == InRaises(p)

VersionBlock(p, r) ==
    IF ~PyIn(K_Version, p)
    THEN SetInvalid(AddRec(AddIssue(r, MissingVersionIssue), MissingVersionRec))
    ELSE r

\* lines 66-69: the early return
\* variant: a missing 'Version' ends the check as well
StatementMissing_OrVersion(p) == ~PyIn(K_Statement, p) \/ ~PyIn(K_Version, p)

StatementMissing(p) == ~PyIn(K_Statement, p)

\* variant: the verdict is left as it was
StatementBlock_KeepsValid(r) == AddIssue(r, MissingStatementIssue)

StatementBlock(r) == SetInvalid(AddIssue(r, MissingStatementIssue))

\* lines 72-74
NormalizeRaises(p) == GetItemRaises(p)

Normalize(p) == AsList(GetItem(p, K_Statement))

\* lines 78-79
ActionsRaises(st) == InRaises(st) \/ (PyIn(K_Action, st) /\ GetItemRaises(st))

ActionsOf(st) == AsList(GetItem(st, K_Action))

\* lines 81-85
RECURSIVE PermissiveLoop(_, _, _, _)
PermissiveLoop(actions, k, n, r) ==
    IF k > Len(actions) THEN r
    ELSE PermissiveLoop(actions, k + 1, n,
            IF InStrList(actions[k], overly_permissive_actions)
            THEN SetInvalid(AddRec(AddIssue(r, PermissiveIssue(n, actions[k].s)),
                                   PermissiveRec(actions[k].s)))
            ELSE r)

\* lines 88-91
RECURSIVE SensitiveLoop(_, _, _, _)
SensitiveLoop(actions, k, n, r) ==
    IF k > Len(actions) THEN r
    ELSE SensitiveLoop(actions, k + 1, n,
            IF InStrList(actions[k], sensitive_actions)
            THEN AddRec(AddIssue(r, SensitiveIssue(n, actions[k].s)),
                        SensitiveRec(actions[k].s))
            ELSE r)

\* variant: a sensitive action marks the report invalid
ActionBlock_SensitiveBlocks(st, n, r) ==
    IF PyIn(K_Action, st)
    THEN LET before == PermissiveLoop(ActionsOf(st), 1, n, r)
             after == SensitiveLoop(ActionsOf(st), 1, n, before)
         IN  IF Len(after.issues) > Len(before.issues) THEN SetInvalid(after) ELSE after
    ELSE r

\* variant: the sensitive loop runs before the overly-permissive loop
ActionBlock_SensitiveFirst(st, n, r) ==
    IF PyIn(K_Action, st)
    THEN PermissiveLoop(ActionsOf(st), 1, n, SensitiveLoop(ActionsOf(st), 1, n, r))
    ELSE r

\* lines 78-91
ActionBlock(st, n, r) ==
    IF PyIn(K_Action, st)
    THEN SensitiveLoop(ActionsOf(st), 1, n, PermissiveLoop(ActionsOf(st), 1, n, r))
    ELSE r

\* lines 94-95
ResourceRaises(st) == InRaises(st) \/ (PyIn(K_Resource, st) /\ GetItemRaises(st))

ResourcesOf(st) == AsList(GetItem(st, K_Resource))

\* lines 97-101
RECURSIVE ResourceLoop(_, _, _, _)
ResourceLoop(resources, k, n, r) ==
    IF k > Len(resources) THEN r
    ELSE ResourceLoop(resources, k + 1, n,
            IF resources[k] = Str(Wildcard)
            THEN SetInvalid(AddRec(AddIssue(r, WildcardIssue(n)), WildcardRec))
            ELSE r)

\* variant: the enumerate() index is used as it is
ResourceBlock_ZeroBased(st, n, r) ==
    IF PyIn(K_Resource, st)
    THEN ResourceLoop(ResourcesOf(st), 1, n - 1, r)
    ELSE SetInvalid(AddRec(AddIssue(r, MissingResourceIssue(n - 1)), MissingResourceRec))

\* variant: a statement without 'Resource' is reported and nothing more
ResourceBlock_MissingIsWarning(st, n, r) ==
    IF PyIn(K_Resource, st)
    THEN ResourceLoop(ResourcesOf(st), 1, n, r)
    ELSE AddRec(AddIssue(r, MissingResourceIssue(n)), MissingResourceRec)

\* lines 94-105
ResourceBlock(st, n, r) ==
    IF PyIn(K_Resource, st)
    THEN ResourceLoop(ResourcesOf(st), 1, n, r)
    ELSE SetInvalid(AddRec(AddIssue(r, MissingResourceIssue(n)), MissingResourceRec))

\* variant: the recommendation is added whether or not a condition is there
ConditionBlock_Always(st, n, r) == AddRec(r, ConditionRec(n))

\* variant: a statement with a 'Condition' clears what was found before it
ConditionBlock_Resets(st, n, r) ==
    IF ~PyIn(K_Condition, st) THEN AddRec(r, ConditionRec(n)) ELSE NewResults

\* lines 108-109
ConditionBlock(st, n, r) ==
    IF ~PyIn(K_Condition, st) THEN AddRec(r, ConditionRec(n)) ELSE r

(***************************************************************************)
(* extract_policy_json (src/app.py); extract_policy_from_text in           *)
(* src/policy_validator.py is the same code returning the string alone.    *)
(* The two re.search calls are computed on the characters.                 *)
(***************************************************************************)
\* \s of a str pattern and the characters str.strip() removes, among the
\* characters of the modelled texts
ReWs == {" ", "\t", "\n", "\r"}

\* the backtick character, which a TLA+ string cannot hold
BQ == "BACKQUOTE"

FenceOpen == <<BQ,BQ,BQ,"j","s","o","n">>
Fence == <<BQ,BQ,BQ>>
Q_Version == <<"\"","V","e","r","s","i","o","n","\"">>
Q_Statement == <<"\"","S","t","a","t","e","m","e","n","t","\"">>

\* the first index >= p that holds no whitespace: where a greedy \s* ends
SkipReWs(s, p) ==
    CHOOSE q \in p..(Len(s) + 1) :
        /\ \A j \in p..(q - 1) : s[j] \in ReWs
        /\ At(s, q) \notin ReWs

\* \s*``` matches at index e
ClosesAt(s, e) == StartsWith(s, SkipReWs(s, e), Fence)

\* ```json\s*([\s\S]*?)\s*``` matches from index b: some ``` follows the tag
FenceMatchesFrom(s, b) ==
    /\ StartsWith(s, b, FenceOpen)
    /\ \E e \in (b + Len(FenceOpen))..Len(s) : StartsWith(s, e, Fence)

\* variant: the match that starts last in the text
FenceSearch_Last(s) ==
    LET starts == {b \in 1..Len(s) : FenceMatchesFrom(s, b)}
    IN  IF starts = {} THEN [matched |-> FALSE, group |-> <<>>]
        ELSE LET b == CHOOSE x \in starts : \A y \in starts : y <= x
                 g == SkipReWs(s, b + Len(FenceOpen))
                 e == MinOf({q \in g..Len(s) : ClosesAt(s, q)})
             IN  [matched |-> TRUE, group |-> SubSeq(s, g, e - 1)]

\* re.search(r"```json\s*([\s\S]*?)\s*```", s): the leftmost match, with the
\* lazy group ending at the first index where \s*``` matches
FenceSearch(s) ==
    LET starts == {b \in 1..Len(s) : FenceMatchesFrom(s, b)}
    IN  IF starts = {} THEN [matched |-> FALSE, group |-> <<>>]
        ELSE LET b == MinOf(starts)
                 g == SkipReWs(s, b + Len(FenceOpen))
                 e == MinOf({q \in g..Len(s) : ClosesAt(s, q)})
             IN  [matched |-> TRUE, group |-> SubSeq(s, g, e - 1)]

\* the end of "Statement"[\s\S]*?\} started at index p: the first "}" after
\* the first "Statement" at or after p; 0 if there is none
HeuristicEnd(s, p) ==
    LET qs == {q \in p..Len(s) : StartsWith(s, q, Q_Statement)}
    IN  IF qs = {} THEN 0
        ELSE LET cs == {c \in (MinOf(qs) + Len(Q_Statement))..Len(s) : s[c] = "}"}
             IN  IF cs = {} THEN 0 ELSE MinOf(cs)

\* \{\s*"Version"[\s\S]*?"Statement"[\s\S]*?\} matches from index b
HeuristicMatchesFrom(s, b) ==
    /\ s[b] = "{"
    /\ StartsWith(s, SkipReWs(s, b + 1), Q_Version)
    /\ HeuristicEnd(s, SkipReWs(s, b + 1) + Len(Q_Version)) /= 0

\* re.search of the second pattern: the leftmost match, group(0)
HeuristicSearch(s) ==
    LET starts == {b \in 1..Len(s) : HeuristicMatchesFrom(s, b)}
    IN  IF starts = {} THEN [matched |-> FALSE, group |-> <<>>]
        ELSE LET b == MinOf(starts)
                 e == HeuristicEnd(s, SkipReWs(s, b + 1) + Len(Q_Version))
             IN  [matched |-> TRUE, group |-> SubSeq(s, b, e)]

\* str.strip()
Strip(s) ==
    LET keep == {k \in 1..Len(s) : s[k] \notin ReWs}
    IN  IF keep = {} THEN <<>>
        ELSE SubSeq(s, MinOf(keep), CHOOSE m \in keep : \A k \in keep : k <= m)

\* the pair (json_str, policy); (None, None) is NotFound
NotFound == [json_str |-> Null, policy |-> Null]
Found(js, v) == [json_str |-> Str(js), policy |-> v]

\* lines 85-89 and 95-99: json.loads on the stripped candidate; its exception
\* reaches the bare except of line 102, which returns (None, None)
LoadCandidate(candidate) ==
    IF json_loads(Strip(candidate)).ok
    THEN Found(Strip(candidate), json_loads(Strip(candidate)).v)
    ELSE NotFound

\* extract_policy_json(s) as a function: the pair the caller gets
extract_policy_json(s) ==
    IF FenceSearch(s).matched THEN LoadCandidate(FenceSearch(s).group)
    ELSE IF HeuristicSearch(s).matched THEN LoadCandidate(HeuristicSearch(s).group)
    ELSE NotFound

\* `not v`
Falsy(v) ==
    CASE v.t = "null" -> TRUE
      [] v.t = "dict" -> DOMAIN v.d = {}
      [] v.t = "list" -> v.l = <<>>
      [] v.t = "str" -> v.s = <<>>
      [] v.t = "num" -> v.n = 0
      [] v.t = "bool" -> ~v.b

(***************************************************************************)
(* The explored arguments of validate_policy.                              *)
(***************************************************************************)
Absent == [t |-> "absent"]

A_s3_star == <<"s","3",":","*">>
A_kms_Decrypt == <<"k","m","s",":","D","e","c","r","y","p","t">>
A_s3_GetObject == <<"s","3",":","G","e","t","O","b","j","e","c","t">>
R_bucket == <<"a","r","n",":","a","w","s",":","s","3",":",":",":","b","u","c","k","e","t","/","*">>
V_2012 == <<"2","0","1","2","-","1","0","-","1","7">>

\* two overly permissive actions, one sensitive action, one plain action
ActionNames == {Wildcard, A_s3_star, A_kms_Decrypt, A_s3_GetObject}
ResourceNames == {Wildcard, R_bucket}

SeqsUpTo(S, n) == UNION {[1..k -> S] : k \in 0..n}

StrList(l) == List([k \in DOMAIN l |-> Str(l[k])])

\* a field that is a single string or absent
SimpleActions == {Absent} \cup {Str(a) : a \in ActionNames}
SimpleResources == {Absent} \cup {Str(x) : x \in ResourceNames}

ActionFields == SimpleActions \cup {StrList(l) : l \in SeqsUpTo(ActionNames, MaxActions)}
ResourceFields == SimpleResources \cup {StrList(l) : l \in SeqsUpTo(ResourceNames, MaxResources)}

\* a dict holding the keys whose value is not Absent
MakeDict(pairs) ==
    Dict([k \in {q[1] : q \in {x \in pairs : x[2] /= Absent}} |->
            (CHOOSE q \in pairs : q[1] = k)[2]])

StatementDict(a, x, c) ==
    MakeDict({<<K_Action, a>>, <<K_Resource, x>>,
              <<K_Condition, IF c THEN Dict(EmptyDict) ELSE Absent>>})

\* statements that are not objects: two on which `in` raises, a str holding
\* a key, a str holding none, and a list holding a key
OddStatements ==
    {Null, Num(1), Str(K_Action), Str(<<"x">>), List(<<Str(K_Resource)>>)}

\* the statements of the longer lists: single-string fields, one statement
\* with a sensitive action listed before an overly-permissive one
SimpleStatements ==
    {StatementDict(a, x, c) : a \in SimpleActions, x \in SimpleResources, c \in BOOLEAN}
    \cup {StatementDict(StrList(<<A_kms_Decrypt, A_s3_star>>), Str(Wildcard), FALSE)}
    \cup OddStatements

AllStatements ==
    {StatementDict(a, x, c) : a \in ActionFields, x \in ResourceFields, c \in BOOLEAN}
    \cup OddStatements

\* the value of 'Statement': absent, one statement that is not a list, a list
\* of at most one statement of any shape, or a longer list of simple ones
StatementFields ==
    {Absent}
    \cup {st \in AllStatements : st.t /= "list"}
    \cup {List(l) : l \in SeqsUpTo(AllStatements, 1)}
    \cup {List(l) : l \in UNION {[1..k -> SimpleStatements] : k \in 2..MaxStmts}}

PolicyDicts ==
    {MakeDict({<<K_Version, v>>, <<K_Statement, sf>>}) :
        v \in {Absent, Str(V_2012)}, sf \in StatementFields}

\* decoded values that are not objects
OddPolicies ==
    {Null, Num(7), List(<<>>), List(<<Str(K_Version), Str(K_Statement)>>)}

\* str arguments: they go through json.loads
T_brace == <<"{">>
T_str == <<"\"","S","t","a","t","e","m","e","n","t","\"">>
T_num == <<"5">>
T_nostmts == <<"{","\"","S","t","a","t","e","m","e","n","t","\"",":","[","]","}">>
T_policy == <<"{","\"","V","e","r","s","i","o","n","\"",":","\"","1","\"",",","\"","S","t","a","t","e","m","e","n","t","\"",":","{","\"","A","c","t","i","o","n","\"",":","\"","s","3",":","*","\"","}","}">>
T_nulls == <<" ","[","n","u","l","l","]"," ">>
PolicyTexts == {Str(T_brace), Str(T_str), Str(T_num), Str(T_nostmts), Str(T_policy), Str(T_nulls)}

Inputs == PolicyDicts \cup OddPolicies \cup PolicyTexts

(***************************************************************************)
(* validate_policy as a state machine.                                     *)
(***************************************************************************)
\* no save was asked for yet
NotSaved == [success |-> FALSE, result |-> "", message |-> ""]

\* PolicyValidator.__init__: the attributes of the new instance
NewValidator ==
    [overly_permissive_actions |-> overly_permissive_actions,
     sensitive_actions |-> sensitive_actions]

Init ==
    /\ policy_json \in Inputs
    /\ policy = Null
    /\ results = NewResults
    /\ statements = <<>>
    /\ i = 0
    /\ pc = "start"
    /\ exc = ""
    /\ ret = NewResults
    /\ text = <<>>
    /\ json_str = Null
    /\ extracted = Null
    /\ validator = NewValidator
    /\ heap = <<>>
    /\ calls = <<>>
    /\ reports = <<>>
    /\ result = <<>>
    /\ save_out = NotSaved
    /\ files = <<>>
    /\ args = <<>>
    /\ prompt = <<>>
    /\ stdout = <<>>
    /\ status = -1

\* a return statement of the try block
Return(r) ==
    /\ ret' = r
    /\ pc' = "done"
    /\ UNCHANGED exc

\* an exception leaves the try block
Raise(e) ==
    /\ exc' = e
    /\ pc' = "except"
    /\ UNCHANGED ret

\* the classes the two except clauses are matched against
ExceptionSubclasses == {"JSONDecodeError", "TypeError"}

\* variant: only the JSONDecodeError clause is there
Handler_DecodeOnly(e) ==
    CASE e = "JSONDecodeError" -> [caught |-> TRUE, report |-> DecodeErrorReport]
      [] OTHER -> [caught |-> FALSE, report |-> NewResults]

\* lines 113-124: the report an except clause returns for e, if one catches it
Handler(e) ==
    CASE e = "JSONDecodeError" -> [caught |-> TRUE, report |-> DecodeErrorReport]
      [] e \in ExceptionSubclasses -> [caught |-> TRUE, report |-> ErrorReport]
      [] OTHER -> [caught |-> FALSE, report |-> NewResults]

\* lines 76-109: the loop from statement k on; the exception raised, if any
RECURSIVE StatementsLoop(_, _, _)
StatementsLoop(stmts, k, r) ==
    IF k > Len(stmts) THEN [exc |-> "", results |-> r]
    ELSE IF ActionsRaises(stmts[k]) \/ ResourceRaises(stmts[k])
    THEN [exc |-> "TypeError", results |-> r]
    ELSE StatementsLoop(stmts, k + 1,
            ConditionBlock(stmts[k], k,
                ResourceBlock(stmts[k], k,
                    ActionBlock(stmts[k], k, r))))

\* lines 60-111 on a decoded policy p: the exception raised, if any
CheckPolicy(p) ==
    IF VersionRaises(p) THEN [exc |-> "TypeError", results |-> NewResults]
    ELSE IF StatementMissing(p)
    THEN [exc |-> "", results |-> StatementBlock(VersionBlock(p, NewResults))]
    ELSE IF NormalizeRaises(p) THEN [exc |-> "TypeError", results |-> NewResults]
    ELSE StatementsLoop(Normalize(p), 1, VersionBlock(p, NewResults))

\* validate_policy(policy_json) as a function: the report the caller gets
validate_policy(pj) ==
    IF pj.t = "str" /\ ~json_loads(pj.s).ok THEN Handler("JSONDecodeError").report
    ELSE LET out == CheckPolicy(IF pj.t = "str" THEN json_loads(pj.s).v ELSE pj)
         IN  IF out.exc = "" THEN out.results ELSE Handler(out.exc).report

\* lines 46-58: decode a str argument, start the report
Parse ==
    /\ pc = "start"
    /\ IF policy_json.t = "str" /\ ~json_loads(policy_json.s).ok
       THEN /\ Raise("JSONDecodeError")
            /\ UNCHANGED <<policy, results>>
       ELSE /\ policy' = IF policy_json.t = "str"
                         THEN json_loads(policy_json.s).v
                         ELSE policy_json
            /\ results' = NewResults
            /\ pc' = "version"
            /\ UNCHANGED <<ret, exc>>
    /\ UNCHANGED ext
    /\ UNCHANGED <<policy_json, statements, i>>

\* lines 61-64
CheckVersion ==
    /\ pc = "version"
    /\ IF VersionRaises(policy)
       THEN /\ Raise("TypeError")
            /\ UNCHANGED results
       ELSE /\ results' = VersionBlock(policy, results)
            /\ pc' = "statement"
            /\ UNCHANGED <<ret, exc>>
    /\ UNCHANGED ext
    /\ UNCHANGED <<policy_json, policy, statements, i>>

\* lines 66-69
CheckStatement ==
    /\ pc = "statement"
    /\ IF StatementMissing(policy)
       THEN /\ results' = StatementBlock(results)
            /\ Return(StatementBlock(results))
       ELSE /\ pc' = "normalize"
            /\ UNCHANGED <<results, ret, exc>>
    /\ UNCHANGED ext
    /\ UNCHANGED <<policy_json, policy, statements, i>>

\* lines 72-74
NormalizeStatements ==
    /\ pc = "normalize"
    /\ IF NormalizeRaises(policy)
       THEN /\ Raise("TypeError")
            /\ UNCHANGED statements
       ELSE /\ statements' = Normalize(policy)
            /\ pc' = "loop"
            /\ UNCHANGED <<ret, exc>>
    /\ UNCHANGED ext
    /\ UNCHANGED <<policy_json, policy, results, i>>

\* line 76, and line 111 once the list is exhausted
NextStatement ==
    /\ pc = "loop"
    /\ IF i < Len(statements)
       THEN /\ pc' = "actions"
            /\ UNCHANGED <<ret, exc>>
       ELSE Return(results)
    /\ UNCHANGED ext
    /\ UNCHANGED <<policy_json, policy, results, statements, i>>

\* lines 78-91
CheckActions ==
    /\ pc = "actions"
    /\ IF ActionsRaises(statements[i + 1])
       THEN /\ Raise("TypeError")
            /\ UNCHANGED results
       ELSE /\ results' = ActionBlock(statements[i + 1], i + 1, results)
            /\ pc' = "resources"
            /\ UNCHANGED <<ret, exc>>
    /\ UNCHANGED ext
    /\ UNCHANGED <<policy_json, policy, statements, i>>

\* lines 94-105
CheckResources ==
    /\ pc = "resources"
    /\ IF ResourceRaises(statements[i + 1])
       THEN /\ Raise("TypeError")
            /\ UNCHANGED results
       ELSE /\ results' = ResourceBlock(statements[i + 1], i + 1, results)
            /\ pc' = "condition"
            /\ UNCHANGED <<ret, exc>>
    /\ UNCHANGED ext
    /\ UNCHANGED <<policy_json, policy, statements, i>>

\* lines 108-109, then the next iteration
CheckCondition ==
    /\ pc = "condition"
    /\ results' = ConditionBlock(statements[i + 1], i + 1, results)
    /\ i' = i + 1
    /\ pc' = "loop"
    /\ UNCHANGED ext
    /\ UNCHANGED <<policy_json, policy, statements, ret, exc>>

\* lines 113-124: an except clause returns its report; an exception that no
\* clause catches propagates to the caller
HandleException ==
    /\ pc = "except"
    /\ IF Handler(exc).caught
       THEN /\ ret' = Handler(exc).report
            /\ pc' = "done"
       ELSE /\ pc' = "propagated"
            /\ UNCHANGED ret
    /\ UNCHANGED ext
    /\ UNCHANGED <<policy_json, policy, results, statements, i, exc>>

Next ==
    \/ Parse
    \/ CheckVersion
    \/ CheckStatement
    \/ NormalizeStatements
    \/ NextStatement
    \/ CheckActions
    \/ CheckResources
    \/ CheckCondition
    \/ HandleException

Spec == Init /\ [][Next]_vars

(***************************************************************************)
(* The explored responses: text around at most two fenced blocks.          *)
(***************************************************************************)
D_nested == <<"{","\"","V","e","r","s","i","o","n","\"",":","\"","1","\"",",","\"","S","t","a","t","e","m","e","n","t","\"",":","[","{","\"","A","c","t","i","o","n","\"",":","\"","s","3",":","*","\"",",","\"","R","e","s","o","u","r","c","e","\"",":","\"","*","\"","}","]","}">>
D_flat == <<"{","\"","V","e","r","s","i","o","n","\"",":","\"","1","\"",",","\"","S","t","a","t","e","m","e","n","t","\"",":","[","]","}">>
D_empty == <<"{","}">>
D_ticks == <<"{","\"","a","\"",":","\"",BQ,BQ,BQ,"\"","}">>
D_bad == <<"{","b","a","d">>
D_num == <<"5">>
P_words == <<"o","k">>

\* documents json.loads accepts, the third with a run of backticks in a string
ValidDocs == {D_nested, D_flat, D_empty, D_ticks, D_num}
Docs == ValidDocs \cup {D_bad}

\* two policies whose reports are valid: one with a sensitive action, one
\* that lacks only the 'Condition'
ReportDocs ==
    {<<"{","\"","V","e","r","s","i","o","n","\"",":","\"","1","\"",",","\"","S","t","a","t","e","m","e","n","t","\"",":","{","\"","A","c","t","i","o","n","\"",":","\"","k","m","s",":","D","e","c","r","y","p","t","\"",",","\"","R","e","s","o","u","r","c","e","\"",":","\"","r","\"","}","}">>,
     <<"{","\"","V","e","r","s","i","o","n","\"",":","\"","1","\"",",","\"","S","t","a","t","e","m","e","n","t","\"",":","{","\"","R","e","s","o","u","r","c","e","\"",":","\"","r","\"","}","}">>}

WsRuns == SeqsUpTo({" ", "\n"}, MaxWs)

\* a fenced block: the tag, the document with whitespace around it, the fence
Block(w1, doc, w2) == FenceOpen \o w1 \o doc \o w2 \o Fence

Blocks ==
    {Block(w1, doc, w2) : w1 \in WsRuns, doc \in Docs, w2 \in WsRuns}
    \cup {Block(<<>>, doc, <<>>) : doc \in ReportDocs}

\* text without a fenced block: nothing, words, a policy written out, and
\* three texts neither pattern matches: an object with 'Statement' and no
\* 'Version', a tag that no fence closes, a fence without the tag
Plains ==
    {<<>>, P_words, D_flat, D_nested,
     <<"{","\"","S","t","a","t","e","m","e","n","t","\"",":","[","]","}">>,
     <<BQ,BQ,BQ,"j","s","o","n","{","}">>,
     <<BQ,BQ,BQ,"{","}",BQ,BQ,BQ>>}

SecondBlocks == {<<>>, Block(<<"\n">>, D_flat, <<"\n">>), Block(<<"\n">>, D_bad, <<"\n">>)}

Texts ==
    {pre \o b1 \o <<"\n">> \o mid \o b2 :
        pre \in {<<>>, P_words}, b1 \in Blocks \cup {<<>>}, mid \in Plains, b2 \in SecondBlocks}

(***************************************************************************)
(* validate_policy_from_text (src/app.py): extract, then validate.         *)
(***************************************************************************)
AppInit ==
    /\ text \in Texts
    /\ json_str = Null
    /\ extracted = Null
    /\ policy_json = Null
    /\ policy = Null
    /\ results = NewResults
    /\ statements = <<>>
    /\ i = 0
    /\ pc = "extract"
    /\ exc = ""
    /\ ret = NewResults
    /\ validator = NewValidator
    /\ heap = <<>>
    /\ calls = <<>>
    /\ reports = <<>>
    /\ result = <<>>
    /\ save_out = NotSaved
    /\ files = <<>>
    /\ args = <<>>
    /\ prompt = <<>>
    /\ stdout = <<>>
    /\ status = -1

\* lines 85-89 and 95-99 inside the try block: strip the candidate and decode
\* it; json.loads raises on a candidate that is not a JSON document
TryCandidate(candidate) ==
    IF json_loads(Strip(candidate)).ok
    THEN /\ json_str' = Str(Strip(candidate))
         /\ extracted' = json_loads(Strip(candidate)).v
         /\ pc' = "extracted"
         /\ UNCHANGED exc
    ELSE /\ exc' = "JSONDecodeError"
         /\ pc' = "extract_except"
         /\ UNCHANGED <<json_str, extracted>>

\* extract_policy_json lines 81-89: the fenced block, if there is one
ExtractFenced ==
    /\ pc = "extract"
    /\ IF FenceSearch(text).matched
       THEN TryCandidate(FenceSearch(text).group)
       ELSE /\ pc' = "heuristic"
            /\ UNCHANGED <<json_str, extracted, exc>>
    /\ UNCHANGED <<text, policy_json, policy, results, statements, i, ret, conc, ui, cli>>

\* extract_policy_json lines 91-101: the brace pattern, else (None, None)
ExtractHeuristic ==
    /\ pc = "heuristic"
    /\ IF HeuristicSearch(text).matched
       THEN TryCandidate(HeuristicSearch(text).group)
       ELSE /\ json_str' = NotFound.json_str
            /\ extracted' = NotFound.policy
            /\ pc' = "extracted"
            /\ UNCHANGED exc
    /\ UNCHANGED <<text, policy_json, policy, results, statements, i, ret, conc, ui, cli>>

\* variant: the clause is `except TypeError`
BareExcept_TypeErrorOnly(e) == e = "TypeError"

\* line 102: `except:` catches every exception
BareExcept(e) == TRUE

\* extract_policy_json lines 102-103: the handler returns (None, None); an
\* exception the clause does not catch propagates to the caller
ExtractExcept ==
    /\ pc = "extract_except"
    /\ IF BareExcept(exc)
       THEN /\ json_str' = NotFound.json_str
            /\ extracted' = NotFound.policy
            /\ exc' = ""
            /\ pc' = "extracted"
       ELSE /\ pc' = "extract_propagated"
            /\ UNCHANGED <<json_str, extracted, exc>>
    /\ UNCHANGED <<text, policy_json, policy, results, statements, i, ret, conc, ui, cli>>

\* the returned text is kept as the sequence of its lines: a fixed line, or
\* the line f"- {entry}" of a report entry (no entry holds a line break)
Line(s) == [kind |-> "text", s |-> s]
Bullet(m) == [kind |-> "item", msg |-> m]

\* line 110
NoPolicyText == <<Line("No valid policy found in the response.")>>

\* validate_policy_from_text lines 109-113
CallValidator ==
    /\ pc = "extracted"
    /\ IF Falsy(extracted)
       THEN /\ result' = NoPolicyText
            /\ pc' = "no_policy"
            /\ UNCHANGED policy_json
       ELSE /\ policy_json' = extracted
            /\ pc' = "start"
            /\ UNCHANGED result
    /\ UNCHANGED <<policy, results, statements, i, exc, ret, text, json_str, extracted, conc,
                   save_out, files, cli>>

\* lines 118-121; the glyph that opens either sentence is left out
ValidHeadline == Line("**Policy is valid according to best practices.**")
InvalidHeadline == Line("**Policy has some issues to address:**")

IssuesTitle == Line("### Issues:")
RecommendationsTitle == Line("### Recommendations:")

\* variant: the title is written for an empty list as well
SectionLines_Always(title, entries) ==
    <<title>> \o [k \in DOMAIN entries |-> Bullet(entries[k])]

\* lines 123-126 and 129-132: `if entries:`, the title, a line per entry
SectionLines(title, entries) ==
    IF entries = <<>> THEN <<>>
    ELSE <<title>> \o [k \in DOMAIN entries |-> Bullet(entries[k])]

\* lines 115-134: the text built from the report r
RenderReport(r) ==
    <<Line("## Policy Validation Results"), Line("")>>
    \o <<IF r.valid THEN ValidHeadline ELSE InvalidHeadline, Line("")>>
    \o (IF SectionLines(IssuesTitle, r.issues) = <<>> THEN <<>>
        ELSE SectionLines(IssuesTitle, r.issues) \o <<Line("")>>)
    \o SectionLines(RecommendationsTitle, r.recommendations)

\* validate_policy_from_text lines 115-134, once validate_policy has returned
Render ==
    /\ pc = "done"
    /\ result' = RenderReport(ret)
    /\ pc' = "rendered"
    /\ UNCHANGED <<policy_json, policy, results, statements, i, exc, ret,
                   text, json_str, extracted, conc, save_out, files, cli>>

(***************************************************************************)
(* Saving the displayed policy: bot_response hands the extractor's string  *)
(* to the interface, save_current_policy passes it to                      *)
(* PolicyUtils.extract_and_save_policy (src/policy_utils.py), which runs   *)
(* the two patterns on it again.                                           *)
(***************************************************************************)
\* the name typed in (empty: none), and the clock read for a default name
PolicyNames == {<<>>, <<"p","1">>, <<"a"," ","-",".","b">>}
Clock == {"20240101_000000", "20240101_000001"}

\* save_policy lines 43-48 and 63-64: the path of the file
FilePath(name, now) ==
    [dir |-> "saved_policies",
     file |-> IF name = <<>> THEN <<"policy_", now, ".json">>
              ELSE [k \in DOMAIN name |->
                       IF name[k] \in {"a", "b", "p", "1", "-", "_"} THEN name[k] ELSE "_"]
                   \o <<".json">>]

\* save_policy lines 35-69 on a str that decodes, in a directory that can be
\* written: the path returned and the directory afterwards
save_policy(fs, doc, name, now) ==
    [filepath |-> FilePath(name, now),
     files |-> [p \in (DOMAIN fs) \cup {FilePath(name, now)} |->
                  IF p = FilePath(name, now)
                  THEN [metadata |-> [generated_at |-> now,
                                      description |-> "Generated IAM policy"],
                        policy |-> json_loads(doc).v]
                  ELSE fs[p]]]

\* extract_and_save_policy lines 129-158 on the text s
extract_and_save_policy(fs, s, name, now) ==
    LET found == FenceSearch(s).matched \/ HeuristicSearch(s).matched
        doc == Strip(IF FenceSearch(s).matched THEN FenceSearch(s).group
                     ELSE HeuristicSearch(s).group)
    IN  IF ~found
        THEN [success |-> FALSE, result |-> "No valid policy JSON found in the text",
              files |-> fs]
        ELSE IF ~json_loads(doc).ok
        THEN [success |-> FALSE, result |-> "Invalid JSON format in the extracted policy",
              files |-> fs]
        ELSE [success |-> TRUE, result |-> save_policy(fs, doc, name, now).filepath,
              files |-> save_policy(fs, doc, name, now).files]

\* bot_response lines 170-173: the string shown as the generated policy (the
\* fixed sentence is kept as one element)
Shown(js) ==
    IF Falsy(js) THEN <<"No valid policy JSON found in the response.">> ELSE js.s

\* save_current_policy and save_policy_from_text (lines 137-143, 177-181),
\* called once the response was processed
SaveCurrentPolicy ==
    /\ pc \in {"rendered", "no_policy"}
    /\ \E name \in PolicyNames, now \in Clock :
          IF Shown(json_str) = <<>>
             \/ Shown(json_str) = <<"No valid policy JSON found in the response.">>
          THEN /\ save_out' = [success |-> FALSE, result |-> "",
                               message |-> "No valid policy to save."]
               /\ UNCHANGED files
          ELSE LET saved == extract_and_save_policy(files, Shown(json_str), name, now)
               IN  /\ save_out' = [success |-> saved.success, result |-> saved.result,
                                    message |-> IF saved.success
                                                THEN "Policy saved successfully to: {result}"
                                                ELSE "Failed to save policy: {result}"]
                   /\ files' = saved.files
    /\ pc' = "saved"
    /\ UNCHANGED <<policy_json, policy, results, statements, i, exc, ret,
                   text, json_str, extracted, conc, result, cli>>

AppNext ==
    \/ ExtractFenced
    \/ ExtractHeuristic
    \/ ExtractExcept
    \/ CallValidator
    \/ Next
    \/ Render
    \/ SaveCurrentPolicy

AppSpec == AppInit /\ [][AppNext]_vars

(***************************************************************************)
(* Several validate_policy calls on one PolicyValidator.  A call's locals  *)
(* are a record; Advance is one step of the function on that record, the   *)
(* same steps as the actions of Spec.  The callers share the instance and  *)
(* may pass the same policy object.                                        *)
(***************************************************************************)
Callers == {1, 2}

\* lines 46-124, one step from the position l.pc
Advance(l) ==
    CASE l.pc = "start" ->
            IF l.policy_json.t = "str" /\ ~json_loads(l.policy_json.s).ok
            THEN [l EXCEPT !.exc = "JSONDecodeError", !.pc = "except"]
            ELSE [l EXCEPT !.policy = IF l.policy_json.t = "str"
                                      THEN json_loads(l.policy_json.s).v
                                      ELSE l.policy_json,
                           !.results = NewResults,
                           !.pc = "version"]
      [] l.pc = "version" ->
            IF VersionRaises(l.policy)
            THEN [l EXCEPT !.exc = "TypeError", !.pc = "except"]
            ELSE [l EXCEPT !.results = VersionBlock(l.policy, l.results), !.pc = "statement"]
      [] l.pc = "statement" ->
            IF StatementMissing(l.policy)
            THEN [l EXCEPT !.results = StatementBlock(l.results),
                           !.ret = StatementBlock(l.results),
                           !.pc = "done"]
            ELSE [l EXCEPT !.pc = "normalize"]
      [] l.pc = "normalize" ->
            IF NormalizeRaises(l.policy)
            THEN [l EXCEPT !.exc = "TypeError", !.pc = "except"]
            ELSE [l EXCEPT !.statements = Normalize(l.policy), !.pc = "loop"]
      [] l.pc = "loop" ->
            IF l.i < Len(l.statements)
            THEN [l EXCEPT !.pc = "actions"]
            ELSE [l EXCEPT !.ret = l.results, !.pc = "done"]
      [] l.pc = "actions" ->
            IF ActionsRaises(l.statements[l.i + 1])
            THEN [l EXCEPT !.exc = "TypeError", !.pc = "except"]
            ELSE [l EXCEPT !.results = ActionBlock(l.statements[l.i + 1], l.i + 1, l.results),
                           !.pc = "resources"]
      [] l.pc = "resources" ->
            IF ResourceRaises(l.statements[l.i + 1])
            THEN [l EXCEPT !.exc = "TypeError", !.pc = "except"]
            ELSE [l EXCEPT !.results = ResourceBlock(l.statements[l.i + 1], l.i + 1, l.results),
                           !.pc = "condition"]
      [] l.pc = "condition" ->
            [l EXCEPT !.results = ConditionBlock(l.statements[l.i + 1], l.i + 1, l.results),
                      !.i = l.i + 1,
                      !.pc = "loop"]
      [] l.pc = "except" ->
            IF Handler(l.exc).caught
            THEN [l EXCEPT !.ret = Handler(l.exc).report, !.pc = "done"]
            ELSE [l EXCEPT !.pc = "propagated"]
      [] OTHER -> l

\* the policies passed in: a policy with findings in two statements, a clean
\* one, one without 'Statement', one whose check raises, and a str to decode
ConcInputs ==
    {MakeDict({<<K_Version, Str(V_2012)>>,
               <<K_Statement, List(<<StatementDict(Str(A_s3_star), Str(R_bucket), TRUE),
                                     StatementDict(Str(A_kms_Decrypt), Str(Wildcard), FALSE)>>)>>}),
     MakeDict({<<K_Version, Str(V_2012)>>,
               <<K_Statement, StatementDict(Str(A_s3_GetObject), Str(R_bucket), TRUE)>>}),
     MakeDict({<<K_Version, Absent>>, <<K_Statement, Absent>>}),
     MakeDict({<<K_Version, Str(V_2012)>>,
               <<K_Statement, List(<<StatementDict(Str(Wildcard), Absent, FALSE), Num(1)>>)>>}),
     Str(T_policy)}

\* variant: the report is kept on the instance, one dict for every call
ReportOf_Shared(c) == 1

\* line 54: `results = {...}` allocates one dict in each call
ReportOf(c) == c

ConcInit ==
    /\ validator = NewValidator
    /\ heap \in [1..2 -> ConcInputs]
    /\ \E o \in 1..2 :
          calls = [c \in Callers |->
                     [arg |-> IF c = 1 THEN 1 ELSE o, policy |-> Null, statements |-> <<>>,
                      i |-> 0, pc |-> "start", exc |-> "", ret |-> NewResults]]
    /\ reports = [c \in Callers |-> NewResults]
    /\ policy_json = Null
    /\ policy = Null
    /\ results = NewResults
    /\ statements = <<>>
    /\ i = 0
    /\ pc = "idle"
    /\ exc = ""
    /\ ret = NewResults
    /\ text = <<>>
    /\ json_str = Null
    /\ extracted = Null
    /\ result = <<>>
    /\ save_out = NotSaved
    /\ files = <<>>
    /\ args = <<>>
    /\ prompt = <<>>
    /\ stdout = <<>>
    /\ status = -1

\* the locals of call c: its argument and its report are read through the
\* references it holds
LocalsOf(c) ==
    [policy_json |-> heap[calls[c].arg], policy |-> calls[c].policy,
     results |-> reports[ReportOf(c)], statements |-> calls[c].statements,
     i |-> calls[c].i, pc |-> calls[c].pc, exc |-> calls[c].exc, ret |-> calls[c].ret]

\* call c, at position where, takes its next step; the argument and the
\* instance are only read
StepAt(c, where) ==
    /\ calls[c].pc = where
    /\ LET l == Advance(LocalsOf(c))
       IN  /\ calls' = [calls EXCEPT ![c] =
                          [arg |-> calls[c].arg, policy |-> l.policy,
                           statements |-> l.statements, i |-> l.i, pc |-> l.pc,
                           exc |-> l.exc, ret |-> l.ret]]
           /\ reports' = [reports EXCEPT ![ReportOf(c)] = l.results]
    /\ UNCHANGED <<validator, heap>>
    /\ UNCHANGED <<policy_json, policy, results, statements, i, pc, exc, ret,
                   text, json_str, extracted, ui, cli>>

ConcNext ==
    \E c \in Callers :
        \/ StepAt(c, "start")
        \/ StepAt(c, "version")
        \/ StepAt(c, "statement")
        \/ StepAt(c, "normalize")
        \/ StepAt(c, "loop")
        \/ StepAt(c, "actions")
        \/ StepAt(c, "resources")
        \/ StepAt(c, "condition")
        \/ StepAt(c, "except")

ConcSpec == ConcInit /\ [][ConcNext]_vars

(***************************************************************************)
(* The command-line flow, generate_policy_cli.main: read the prompt,       *)
(* create the client, ask the model, extract the policy from its response. *)
(***************************************************************************)
\* the methods class PolicyUtils defines (src/policy_utils.py)
PolicyUtilsMethods ==
    {"__init__", "save_policy", "load_policy", "list_saved_policies", "extract_and_save_policy"}

\* lines 87-99: the prompt itself, a file that can be read or one that
\* cannot; --save NAME, --validate and --json-only given or not
CliArgs ==
    [source : {"prompt", "file", "unreadable_file"},
     save : {<<>>, <<"p","1">>},
     validate : BOOLEAN,
     json_only : BOOLEAN]

\* what generate_iam_policy returns: the model's text, or the sentence of its
\* except clause, kept as one element
Responses ==
    {P_words \o <<"\n">> \o Block(<<"\n">>, D_nested, <<"\n">>) \o <<"\n">> \o P_words,
     Block(<<>>, D_flat, <<>>),
     Block(<<"\n">>, D_bad, <<"\n">>),
     P_words,
     <<"Error generating IAM policy: {str(e)}">>}

CliInit ==
    /\ args \in CliArgs
    /\ prompt = <<>>
    /\ stdout = <<>>
    /\ status = -1
    /\ pc = "cli_prompt"
    /\ exc = ""
    /\ text = <<>>
    /\ json_str = Null
    /\ extracted = Null
    /\ policy_json = Null
    /\ policy = Null
    /\ results = NewResults
    /\ statements = <<>>
    /\ i = 0
    /\ ret = NewResults
    /\ validator = NewValidator
    /\ heap = <<>>
    /\ calls = <<>>
    /\ reports = <<>>
    /\ result = <<>>
    /\ save_out = NotSaved
    /\ files = <<>>

\* what no step of main before line 127 assigns
cli_idle == <<policy_json, policy, results, statements, i, ret, json_str, extracted, conc, ui>>

\* lines 102-110: the prompt of the command line or the stripped content of
\* the file; a file that cannot be read ends the run with status 1
ReadPrompt ==
    /\ pc = "cli_prompt"
    /\ IF args.source = "unreadable_file"
       THEN /\ stdout' = Append(stdout, "Error reading file: {str(e)}")
            /\ status' = 1
            /\ pc' = "cli_exit"
            /\ UNCHANGED prompt
       ELSE /\ prompt' = IF args.source = "prompt" THEN <<"u">> ELSE Strip(<<" ", "u", "\n">>)
            /\ pc' = "cli_client"
            /\ UNCHANGED <<stdout, status>>
    /\ UNCHANGED <<args, exc, text, cli_idle>>

\* lines 113-118: the two helpers are built and the client is asked for;
\* boto3.client may raise
CreateClient ==
    /\ pc = "cli_client"
    /\ \E created \in BOOLEAN :
          IF created
          THEN pc' = "cli_generate" /\ UNCHANGED exc
          ELSE pc' = "cli_except" /\ exc' = "ClientError"
    /\ UNCHANGED <<args, prompt, stdout, status, text, cli_idle>>

\* lines 121-122: generate_iam_policy returns a str whatever happens
Generate ==
    /\ pc = "cli_generate"
    /\ stdout' = Append(stdout, "Generating IAM policy... (this may take a moment)")
    /\ text' \in Responses
    /\ pc' = "cli_extract"
    /\ UNCHANGED <<args, prompt, status, exc, cli_idle>>

\* line 125: policy_utils.extract_policy_from_text is looked up on a
\* PolicyUtils instance; a name the class does not define raises
\* AttributeError inside the try block.  Lines 127-166 run only after the
\* call has returned.
ExtractPolicy ==
    /\ pc = "cli_extract"
    /\ IF "extract_policy_from_text" \in PolicyUtilsMethods
       THEN pc' = "cli_extracted" /\ UNCHANGED exc
       ELSE pc' = "cli_except" /\ exc' = "AttributeError"
    /\ UNCHANGED <<args, prompt, stdout, status, text, cli_idle>>

\* lines 168-170: except Exception prints the error and exits with status 1
CliExcept ==
    /\ pc = "cli_except"
    /\ stdout' = Append(stdout, "Error: {str(e)}")
    /\ status' = 1
    /\ pc' = "cli_exit"
    /\ UNCHANGED <<args, prompt, exc, text, cli_idle>>

CliNext ==
    \/ ReadPrompt
    \/ CreateClient
    \/ Generate
    \/ ExtractPolicy
    \/ CliExcept

CliSpec == CliInit /\ [][CliNext]_vars

(***************************************************************************)
(* Vocabulary of the properties.                                           *)
(***************************************************************************)
Range(f) == {f[k] : k \in DOMAIN f}
Count(seq, x) == Cardinality({k \in DOMAIN seq : seq[k] = x})
Returned == pc = "done"

IsDict(v) == v.t = "dict"
HasKey(v, key) == IsDict(v) /\ key \in DOMAIN v.d

\* an object with a 'Statement' whose statements are all objects
WellFormed ==
    /\ HasKey(policy, K_Statement)
    /\ \A n \in DOMAIN Normalize(policy) : IsDict(Normalize(policy)[n])

StatementAt(n) == Normalize(policy)[n]
ActionsAt(n) == IF HasKey(StatementAt(n), K_Action) THEN ActionsOf(StatementAt(n)) ELSE <<>>
ResourcesAt(n) == IF HasKey(StatementAt(n), K_Resource) THEN ResourcesOf(StatementAt(n)) ELSE <<>>

PermissiveFmt == PermissiveIssue(0, <<>>).fmt
SensitiveFmt == SensitiveIssue(0, <<>>).fmt
SensitiveRecFmt == SensitiveRec(<<>>).fmt

\* the state machine returns what the function computes
ReturnsFunctionValue == Returned => ret = validate_policy(policy_json)

Extracted == pc \notin {"extract", "heuristic", "extract_except", "extract_propagated"}

ExtractsFunctionValue ==
    Extracted => [json_str |-> json_str, policy |-> extracted] = extract_policy_json(text)

\* the locals of the single call of Spec, as a record
Locals ==
    [policy_json |-> policy_json, policy |-> policy, results |-> results,
     statements |-> statements, i |-> i, pc |-> pc, exc |-> exc, ret |-> ret]

\* a step of the single call is a step of Advance
StepsAgree == [][Locals' = Advance(Locals)]_vars

(***************************************************************************)
(* C1: when the fenced block of the text does not decode, the extractor    *)
(* goes on to the brace pattern, so a text that also holds a decodable     *)
(* match of that pattern gets that match as the returned document.         *)
(***************************************************************************)
C1_HeuristicAfterBadFence ==
    (/\ Extracted
     /\ FenceSearch(text).matched
     /\ ~json_loads(Strip(FenceSearch(text).group)).ok
     /\ HeuristicSearch(text).matched
     /\ json_loads(Strip(HeuristicSearch(text).group)).ok)
        => json_str = Str(Strip(HeuristicSearch(text).group))

(***************************************************************************)
(* C2, as stated: every policy without 'Statement', with or without        *)
(* 'Version', gets valid=false and the missing-Statement issue as its only *)
(* issue.                                                                  *)
(***************************************************************************)
C2_OnlyIssueAsStated ==
    (Returned /\ IsDict(policy) /\ ~HasKey(policy, K_Statement))
        => (~ret.valid /\ ret.issues = <<MissingStatementIssue>>)

(***************************************************************************)
(* C2, amended: a policy without 'Statement' gets valid=false and no       *)
(* per-statement issue; its issue list is the missing-Statement issue      *)
(* alone when 'Version' is present, and the missing-Version issue followed *)
(* by the missing-Statement issue when 'Version' is absent as well.        *)
(***************************************************************************)
C2_MissingStatement ==
    (Returned /\ IsDict(policy) /\ ~HasKey(policy, K_Statement))
        => /\ ~ret.valid
           /\ ret.issues = IF HasKey(policy, K_Version)
                           THEN <<MissingStatementIssue>>
                           ELSE <<MissingVersionIssue, MissingStatementIssue>>
           /\ \A k \in DOMAIN ret.issues : ret.issues[k].n = 0

C2_Witness ==
    Returned /\ IsDict(policy) /\ DOMAIN policy.d = {} /\ Len(ret.issues) = 2

(***************************************************************************)
(* C3: validate_policy never raises to its caller.  No exception           *)
(* propagates out of the function, and a return through an except clause   *)
(* gives valid=false, one issue and one recommendation, the issue being    *)
(* none of those the checks had accumulated before the exception.          *)
(***************************************************************************)
C3_NeverRaises ==
    /\ pc /= "propagated"
    /\ (Returned /\ exc /= "")
          => /\ ~ret.valid
             /\ Len(ret.issues) = 1
             /\ Len(ret.recommendations) = 1
             /\ \A k \in DOMAIN results.issues : ret.issues[1] /= results.issues[k]

\* an exception after a per-statement issue was recorded
C3_Witness ==
    /\ Returned
    /\ exc = "TypeError"
    /\ \E k \in DOMAIN results.issues : results.issues[k].n >= 1

(***************************************************************************)
(* C4: overly-permissive matching is exact string equality.  In the report *)
(* of a well-formed policy, statement n has as many overly-permissive      *)
(* issues for action a as a occurs in its action list when a is one of the *)
(* seven entries (and then valid=false), and none when it is not, as for   *)
(* 's3:GetObject'; no overly-permissive issue names any other action.      *)
(***************************************************************************)
C4_ExactMatch ==
    (Returned /\ WellFormed)
        => /\ \A n \in DOMAIN Normalize(policy) : \A a \in ActionNames :
                 IF a \in Range(overly_permissive_actions)
                 THEN /\ Count(ret.issues, PermissiveIssue(n, a)) = Count(ActionsAt(n), Str(a))
                      /\ Count(ActionsAt(n), Str(a)) > 0 => ~ret.valid
                 ELSE Count(ret.issues, PermissiveIssue(n, a)) = 0
           /\ \A k \in DOMAIN ret.issues :
                 ret.issues[k].fmt = PermissiveFmt
                     => ret.issues[k].a \in Range(overly_permissive_actions)

\* a statement holding 's3:GetObject' next to 's3:*'
C4_Witness ==
    /\ Returned
    /\ WellFormed
    /\ \E n \in DOMAIN Normalize(policy) :
          /\ Count(ActionsAt(n), Str(A_s3_GetObject)) > 0
          /\ Count(ActionsAt(n), Str(A_s3_star)) > 0

(***************************************************************************)
(* C5: in the report of a well-formed policy, every statement n has one    *)
(* 'applies to all resources' issue with index n for each '*' in its       *)
(* Resource, and the report is valid=false when there is at least one.     *)
(***************************************************************************)
C5_WildcardResource ==
    (Returned /\ WellFormed)
        => \A n \in DOMAIN Normalize(policy) :
              /\ Count(ret.issues, WildcardIssue(n)) = Count(ResourcesAt(n), Str(Wildcard))
              /\ Count(ResourcesAt(n), Str(Wildcard)) > 0 => ~ret.valid

\* the wildcard resource is in the second statement only
C5_Witness ==
    /\ Returned
    /\ WellFormed
    /\ Len(Normalize(policy)) = 2
    /\ Count(ResourcesAt(1), Str(Wildcard)) = 0
    /\ Count(ResourcesAt(2), Str(Wildcard)) = 1

(***************************************************************************)
(* C6: a sensitive action is a warning.  In the report of a well-formed    *)
(* policy every occurrence of a sensitive action in statement n gives one  *)
(* sensitive-action issue with index n and one recommendation, and a       *)
(* report whose issues are all sensitive-action issues is valid=true.      *)
(***************************************************************************)
C6_SensitiveIsWarning ==
    (Returned /\ WellFormed)
        => /\ \A n \in DOMAIN Normalize(policy) :
                 \A a \in ActionNames \cap Range(sensitive_actions) :
                     Count(ret.issues, SensitiveIssue(n, a)) = Count(ActionsAt(n), Str(a))
           /\ Cardinality({k \in DOMAIN ret.issues : ret.issues[k].fmt = SensitiveFmt})
                 = Cardinality({k \in DOMAIN ret.recommendations :
                                    ret.recommendations[k].fmt = SensitiveRecFmt})
           /\ (\A k \in DOMAIN ret.issues : ret.issues[k].fmt = SensitiveFmt) => ret.valid

\* a report that is valid and lists a sensitive action
C6_Witness ==
    /\ Returned
    /\ WellFormed
    /\ ret.valid
    /\ ret.issues /= <<>>

(***************************************************************************)
(* C7: a missing 'Version' is not fatal.  The report of a policy without   *)
(* 'Version' whose check does not end in an exception is valid=false, and  *)
(* its issues and recommendations are the missing-Version issue and        *)
(* recommendation followed by exactly the issues and recommendations of    *)
(* the same policy with a 'Version'.                                       *)
(***************************************************************************)
WithVersion(p) ==
    Dict([k \in (DOMAIN p.d) \cup {K_Version} |->
            IF k = K_Version THEN Str(V_2012) ELSE p.d[k]])

C7_MissingVersionNotFatal ==
    (Returned /\ exc = "" /\ IsDict(policy) /\ ~HasKey(policy, K_Version)
        /\ HasKey(policy, K_Statement))
        => /\ ~ret.valid
           /\ ret.issues
                 = <<MissingVersionIssue>> \o validate_policy(WithVersion(policy)).issues
           /\ ret.recommendations
                 = <<MissingVersionRec>> \o validate_policy(WithVersion(policy)).recommendations

\* the scenario of the specification: iam:*-like action on resource '*'
C7_Witness ==
    /\ Returned
    /\ exc = ""
    /\ IsDict(policy)
    /\ ~HasKey(policy, K_Version)
    /\ HasKey(policy, K_Statement)
    /\ Len(ret.issues) = 3
    /\ Len(ret.recommendations) = 4

(***************************************************************************)
(* C8: a policy with a 'Version' whose statements all have only actions    *)
(* outside both rule lists, a 'Resource' without '*' and a 'Condition'     *)
(* gets valid=true, no issue and no recommendation.                        *)
(***************************************************************************)
CleanStatement(st) ==
    /\ IsDict(st)
    /\ HasKey(st, K_Resource)
    /\ HasKey(st, K_Condition)
    /\ HasKey(st, K_Action)
          => \A k \in DOMAIN ActionsOf(st) :
                 /\ ActionsOf(st)[k].t = "str"
                 /\ ActionsOf(st)[k].s \notin
                        Range(overly_permissive_actions) \cup Range(sensitive_actions)
    /\ \A k \in DOMAIN ResourcesOf(st) : ResourcesOf(st)[k] /= Str(Wildcard)

CleanPolicy ==
    /\ HasKey(policy, K_Version)
    /\ HasKey(policy, K_Statement)
    /\ \A n \in DOMAIN Normalize(policy) : CleanStatement(Normalize(policy)[n])

C8_CleanPolicyIsValid ==
    (Returned /\ CleanPolicy)
        => (ret.valid /\ ret.issues = <<>> /\ ret.recommendations = <<>>)

\* two clean statements, the first with an action
C8_Witness ==
    /\ Returned
    /\ CleanPolicy
    /\ Len(Normalize(policy)) = 2
    /\ Len(ActionsAt(1)) > 0

(***************************************************************************)
(* C9: a policy whose 'Statement' is an empty list is never reported as    *)
(* valid=true with an empty issue list.                                    *)
(***************************************************************************)
C9_EmptyStatementsRejected ==
    (Returned /\ HasKey(policy, K_Statement) /\ policy.d[K_Statement] = List(<<>>))
        => ~(ret.valid /\ ret.issues = <<>>)

(***************************************************************************)
(* C10: for a text with exactly one fenced block whose content is a        *)
(* document json.loads accepts, a string value holding three backticks     *)
(* included, the extractor returns that content without the whitespace     *)
(* around it.                                                              *)
(***************************************************************************)
\* the text is words, one fenced block around doc, and text without a fence
OneFencedBlock(doc) ==
    \E pre \in {<<>>, P_words}, w1 \in WsRuns, w2 \in WsRuns, post \in Plains :
        text = pre \o Block(w1, doc, w2) \o <<"\n">> \o post

C10_FencedDocumentReturned ==
    Extracted
        => \A doc \in ValidDocs : OneFencedBlock(doc) => json_str = Str(Strip(doc))

(***************************************************************************)
(* C11: a text that holds neither a fenced block (the tag and a later      *)
(* fence) nor an open brace, a later "Version", a later "Statement" and a  *)
(* later closing brace gets (None, None); and no exception leaves          *)
(* extract_policy_json, whatever the text.                                 *)
(***************************************************************************)
NoFencedBlock(s) ==
    ~\E b \in 1..Len(s) :
        /\ StartsWith(s, b, FenceOpen)
        /\ \E e \in (b + Len(FenceOpen))..Len(s) : StartsWith(s, e, Fence)

NoBracePattern(s) ==
    ~\E b \in 1..Len(s) :
        /\ s[b] = "{"
        /\ \E v \in (b + 1)..Len(s) :
              /\ StartsWith(s, v, Q_Version)
              /\ \E q \in (v + Len(Q_Version))..Len(s) :
                    /\ StartsWith(s, q, Q_Statement)
                    /\ \E e \in (q + Len(Q_Statement))..Len(s) : s[e] = "}"

C11_NotFoundNeverRaises ==
    /\ pc /= "extract_propagated"
    /\ (Extracted /\ NoFencedBlock(text) /\ NoBracePattern(text))
          => (json_str = Null /\ extracted = Null)

\* a text with braces and "Statement", and one with a tag no fence closes
C11_Witness ==
    /\ Extracted
    /\ NoFencedBlock(text)
    /\ NoBracePattern(text)
    /\ \E k \in DOMAIN text : text[k] = "{"
    /\ \E k \in DOMAIN text : StartsWith(text, k, Q_Statement) \/ StartsWith(text, k, FenceOpen)

(***************************************************************************)
(* C12: in a text with several fenced blocks the result is decided by the  *)
(* first one alone.  Its content, taken from the first tag to the first    *)
(* fence after it and stripped, is the returned document when it decodes;  *)
(* when it does not, nothing is returned, so a later block never takes the *)
(* place of the first.                                                     *)
(***************************************************************************)
\* the tags that a later fence closes
BlockStarts(s) ==
    {b \in 1..Len(s) :
        /\ StartsWith(s, b, FenceOpen)
        /\ \E e \in (b + Len(FenceOpen))..Len(s) : StartsWith(s, e, Fence)}

FirstBlockContent(s) ==
    LET b == MinOf(BlockStarts(s))
        e == MinOf({q \in (b + Len(FenceOpen))..Len(s) : StartsWith(s, q, Fence)})
    IN  Strip(SubSeq(s, b + Len(FenceOpen), e - 1))

C12_FirstBlockWins ==
    (Extracted /\ Cardinality(BlockStarts(text)) >= 2)
        => IF json_loads(FirstBlockContent(text)).ok
           THEN /\ json_str = Str(FirstBlockContent(text))
                /\ extracted = json_loads(FirstBlockContent(text)).v
           ELSE json_str = Null /\ extracted = Null

\* the nested policy in the first block, another valid document in a later one
C12_Witness ==
    /\ Extracted
    /\ Cardinality(BlockStarts(text)) >= 2
    /\ json_str = Str(D_nested)
    /\ \E b \in BlockStarts(text) : StartsWith(text, b, Block(<<"\n">>, D_flat, <<"\n">>))

(***************************************************************************)
(* C13: validate_policy_from_text gives 'No valid policy found' only when  *)
(* the extractor returned (None, None); a document the extractor found,    *)
(* the empty object included, is handed to validate_policy.                *)
(***************************************************************************)
C13_SuccessReachesValidator == pc = "no_policy" => json_str = Null

(***************************************************************************)
(* C14: with two validate_policy calls interleaved in any way on one       *)
(* PolicyValidator, on the same policy object or on two, every call        *)
(* returns the report the function gives for its policy alone, so two      *)
(* calls on the same policy return identical reports; and no step changes  *)
(* a policy object or the two rule lists of the instance.                  *)
(***************************************************************************)
C14_CallsIndependent ==
    /\ [](\A c \in Callers :
             calls[c].pc = "done" => calls[c].ret = validate_policy(heap[calls[c].arg]))
    /\ [](\A c \in Callers, d \in Callers :
             (calls[c].pc = "done" /\ calls[d].pc = "done"
                 /\ heap[calls[c].arg] = heap[calls[d].arg])
                => calls[c].ret = calls[d].ret)
    /\ [](validator = NewValidator)
    /\ [][heap' = heap /\ validator' = validator]_vars

\* both calls are inside the statement loop of the same policy object, the
\* first having recorded issues
C14_Witness ==
    /\ calls /= <<>>
    /\ calls[1].arg = calls[2].arg
    /\ calls[1].pc = "condition"
    /\ calls[1].i = 1
    /\ reports[1].issues /= <<>>
    /\ calls[2].pc = "resources"
    /\ calls[2].i = 0

(***************************************************************************)
(* C15: the text validate_policy_from_text returns for a report holds,     *)
(* after the title, exactly one headline, the one for the report's valid   *)
(* flag; then the Issues title exactly when the issue list is not empty;   *)
(* then the Recommendations title exactly when the recommendation list is  *)
(* not empty.  The entry lines after the Issues title and before the       *)
(* Recommendations title are the issues, one line each, in the order the   *)
(* validator appended them; those after the Recommendations title are the  *)
(* recommendations, in their order; there is no other entry line.          *)
(***************************************************************************)
Rendered == pc = "rendered"

\* the positions of line x in the text
Where(x) == {k \in DOMAIN result : result[k] = x}

\* the position of the Recommendations title, past the end if there is none
RecsFrom ==
    IF Where(RecommendationsTitle) = {} THEN Len(result) + 1
    ELSE MinOf(Where(RecommendationsTitle))

\* the entries of the entry lines at the positions of S, in order
RECURSIVE EntriesIn(_, _)
EntriesIn(k, S) ==
    IF k > Len(result) THEN <<>>
    ELSE (IF k \in S /\ result[k].kind = "item" THEN <<result[k].msg>> ELSE <<>>)
         \o EntriesIn(k + 1, S)

C15_RenderedReport ==
    Rendered
        => /\ Cardinality(Where(ValidHeadline)) = (IF ret.valid THEN 1 ELSE 0)
           /\ Cardinality(Where(InvalidHeadline)) = (IF ret.valid THEN 0 ELSE 1)
           /\ Cardinality(Where(IssuesTitle)) = (IF ret.issues /= <<>> THEN 1 ELSE 0)
           /\ Cardinality(Where(RecommendationsTitle))
                 = (IF ret.recommendations /= <<>> THEN 1 ELSE 0)
           /\ \A h \in Where(ValidHeadline) \cup Where(InvalidHeadline) :
                 /\ \A k \in Where(IssuesTitle) : h < k /\ k < RecsFrom
                 /\ h < RecsFrom
                 /\ \A k \in 1..h : result[k].kind = "text"
           /\ EntriesIn(1, {k \in DOMAIN result : \E t \in Where(IssuesTitle) : t < k /\ k < RecsFrom})
                 = ret.issues
           /\ EntriesIn(1, {k \in DOMAIN result : k > RecsFrom}) = ret.recommendations
           /\ Len(EntriesIn(1, DOMAIN result)) = Len(ret.issues) + Len(ret.recommendations)

\* a valid report with one issue and two recommendations
C15_Witness ==
    /\ Rendered
    /\ ret.valid
    /\ Len(ret.issues) = 1
    /\ Len(ret.recommendations) = 2

(***************************************************************************)
(* C16: on every return of validate_policy that is not through an except   *)
(* clause, valid is false exactly when a blocking finding occurred: the    *)
(* policy has no 'Version' key, or no 'Statement' key, or some statement   *)
(* has an action equal to an overly-permissive entry, a resource equal to  *)
(* '*', or no 'Resource' key.  Sensitive actions, a missing 'Condition'    *)
(* and a missing 'Action' are not among these; and a report with           *)
(* valid=false has at least one issue.                                     *)
(***************************************************************************)
BlockingStatement(st) ==
    \/ ~HasKey(st, K_Resource)
    \/ /\ HasKey(st, K_Action)
       /\ \E k \in DOMAIN ActionsOf(st) :
             \E e \in DOMAIN overly_permissive_actions :
                 ActionsOf(st)[k] = Str(overly_permissive_actions[e])
    \/ /\ HasKey(st, K_Resource)
       /\ \E k \in DOMAIN ResourcesOf(st) : ResourcesOf(st)[k] = Str(Wildcard)

BlockingFinding ==
    \/ ~HasKey(policy, K_Version)
    \/ ~HasKey(policy, K_Statement)
    \/ \E n \in DOMAIN Normalize(policy) : BlockingStatement(Normalize(policy)[n])

C16_ValidIffNoBlockingFinding ==
    (Returned /\ exc = "")
        => /\ ~ret.valid <=> BlockingFinding
           /\ ~ret.valid => ret.issues /= <<>>

\* a valid report for a statement without 'Action' and 'Condition' next to
\* a statement with a sensitive action
C16_Witness ==
    /\ Returned
    /\ exc = ""
    /\ ret.valid
    /\ WellFormed
    /\ \E n \in DOMAIN Normalize(policy) :
          ~HasKey(StatementAt(n), K_Action) /\ ~HasKey(StatementAt(n), K_Condition)
    /\ \E k \in DOMAIN ret.issues : ret.issues[k].fmt = SensitiveFmt

(***************************************************************************)
(* C17: inside one validate_policy call the report only grows.  It starts  *)
(* as valid=true with no entries; no step sets valid back to true, and     *)
(* every step leaves the issue list and the recommendation list as they    *)
(* were or appends to them.  A call that does not take the error path      *)
(* returns the report so built.                                            *)
(***************************************************************************)
IsPrefix(a, b) == Len(a) <= Len(b) /\ SubSeq(b, 1, Len(a)) = a

C17_ReportGrows ==
    /\ [](pc \in {"start", "version"} => results = NewResults)
    /\ [][/\ results'.valid => results.valid
          /\ IsPrefix(results.issues, results'.issues)
          /\ IsPrefix(results.recommendations, results'.recommendations)]_vars
    /\ []((Returned /\ exc = "") => ret = results)

\* the second statement is being checked after the first made the report
\* invalid
C17_Witness ==
    /\ pc = "resources"
    /\ i = 1
    /\ exc = ""
    /\ ~results.valid
    /\ Len(results.issues) = 2

(***************************************************************************)
(* C18: in a text without a fenced block, the brace pattern's candidate    *)
(* runs from the first open brace that is followed by "Version" and a      *)
(* later "Statement" to the closing brace that balances it, so a policy    *)
(* with nested statement objects written out in the text is returned in    *)
(* full.                                                                   *)
(***************************************************************************)
\* the closing brace that balances the open brace at index b; 0 if none
BalancedEnd(s, b) ==
    LET depth(e) == Cardinality({k \in b..e : s[k] = "{"})
                        - Cardinality({k \in b..e : s[k] = "}"})
        ends == {e \in (b + 1)..Len(s) : depth(e) = 0}
    IN  IF ends = {} THEN 0 ELSE MinOf(ends)

C18_BalancedCandidate ==
    (Extracted /\ NoFencedBlock(text) /\ HeuristicSearch(text).matched)
        => LET b == MinOf({x \in 1..Len(text) : HeuristicMatchesFrom(text, x)})
               e == BalancedEnd(text, b)
           IN  (e /= 0 /\ json_loads(SubSeq(text, b, e)).ok)
                   => json_str = Str(SubSeq(text, b, e))

(***************************************************************************)
(* C19: the issues of a well-formed policy come in a fixed order.  The     *)
(* missing-Version issue, if any, is first.  Then come the issues of       *)
(* statement 1, then those of statement 2, and so on, each carrying the    *)
(* 1-based position of its statement; the issues of a statement are the    *)
(* overly-permissive ones in action order, then the sensitive ones in      *)
(* action order, then the resource ones.  The issues of statement n are    *)
(* those the same statement gets as the only statement of a policy, with   *)
(* the position n in place of 1.                                           *)
(***************************************************************************)
\* the actions of list l that are entries of L, in the order of l
RECURSIVE EntriesAmong(_, _)
EntriesAmong(l, L) ==
    IF l = <<>> THEN <<>>
    ELSE (IF \E e \in DOMAIN L : l[1] = Str(L[e]) THEN <<l[1].s>> ELSE <<>>)
         \o EntriesAmong(Tail(l), L)

\* the issues statement n is to get
ExpectedIssues(n) ==
    [k \in DOMAIN EntriesAmong(ActionsAt(n), overly_permissive_actions) |->
        PermissiveIssue(n, EntriesAmong(ActionsAt(n), overly_permissive_actions)[k])]
    \o [k \in DOMAIN EntriesAmong(ActionsAt(n), sensitive_actions) |->
        SensitiveIssue(n, EntriesAmong(ActionsAt(n), sensitive_actions)[k])]
    \o (IF HasKey(StatementAt(n), K_Resource)
        THEN [k \in 1..Count(ResourcesAt(n), Str(Wildcard)) |-> WildcardIssue(n)]
        ELSE <<MissingResourceIssue(n)>>)

RECURSIVE ExpectedFrom(_)
ExpectedFrom(n) ==
    IF n > Len(Normalize(policy)) THEN <<>> ELSE ExpectedIssues(n) \o ExpectedFrom(n + 1)

\* the issues of statement n checked alone, carrying the position n
AloneIssues(n) ==
    LET alone == validate_policy(
                    MakeDict({<<K_Version, Str(V_2012)>>,
                              <<K_Statement, List(<<StatementAt(n)>>)>>})).issues
    IN  [k \in DOMAIN alone |-> [alone[k] EXCEPT !.n = n]]

C19_IssueOrder ==
    (Returned /\ WellFormed)
        => /\ ret.issues
                 = (IF HasKey(policy, K_Version) THEN <<>> ELSE <<MissingVersionIssue>>)
                   \o ExpectedFrom(1)
           /\ \A n \in DOMAIN Normalize(policy) :
                 /\ ExpectedIssues(n) = AloneIssues(n)
                 /\ \A k \in DOMAIN ExpectedIssues(n) : ExpectedIssues(n)[k].n = n

\* two statements with issues, the first with an overly-permissive action
\* listed after a sensitive one and a wildcard resource
C19_Witness ==
    /\ Returned
    /\ WellFormed
    /\ Len(Normalize(policy)) = 2
    /\ ExpectedIssues(2) /= <<>>
    /\ Len(ActionsAt(1)) = 2
    /\ ActionsAt(1)[1] = Str(A_kms_Decrypt)
    /\ ActionsAt(1)[2] = Str(A_s3_star)
    /\ Count(ResourcesAt(1), Str(Wildcard)) > 0

(***************************************************************************)
(* C20: whenever the extractor returned a document string for the          *)
(* response, saving the displayed policy succeeds: the save reports        *)
(* success with a file path, and the file at that path holds the decoded   *)
(* document as its 'policy' member.                                        *)
(***************************************************************************)
C20_ExtractedIsSaved ==
    (pc = "saved" /\ json_str /= Null)
        => /\ save_out.success
           /\ save_out.result \in DOMAIN files
           /\ files[save_out.result].policy = extracted

(***************************************************************************)
(* C21: the command-line run ends with exit status 1 only when the prompt  *)
(* file cannot be read, the client cannot be created, or no policy can be  *)
(* extracted from the response; a response holding a fenced block with a   *)
(* document that decodes does not end the run with status 1.               *)
(***************************************************************************)
C21_ExitOnlyOnStatedErrors ==
    (pc = "cli_exit" /\ status = 1)
        => \/ args.source = "unreadable_file"
           \/ exc = "ClientError"
           \/ extract_policy_json(text) = NotFound

====
